---------------------------- MODULE Spec2Model ----------------------------
(***************************************************************************)
(* A model of fp-std: the function combinators (src/function/mod.rs), the  *)
(* tuple combinators and the tuple lenses (src/tuple/mod.rs).              *)
(*                                                                         *)
(* The library itself is stateless.  The state of the model is the state   *)
(* of a client that owns values, builds callables out of the combinators,  *)
(* invokes them and mutates the values it owns.  Owned values that are     *)
(* cloned (the `A: Clone` parameters) live in a heap of cells, so that a   *)
(* clone (a new cell with equal content) differs from a move or an alias   *)
(* (the same cell).  Numbers are usize, scaled down to UsizeBits bits;     *)
(* arithmetic overflow panics in a build with overflow checks and wraps    *)
(* otherwise, the build being chosen in Init.                              *)
(***************************************************************************)
EXTENDS Integers, Sequences, FiniteSets, TLC

VARIABLES
    overflow_checks,  \* the build: TRUE = overflow checks (debug), FALSE = wrapping (release)
    heap,             \* the live cells: address -> content
    fun,              \* the callable the client holds, or NoFn
    given,            \* the value handed to always/apply_first/apply_second/duplicate at creation
    held,             \* cells the client owns singly (values returned by callables, by first/second)
    pair,             \* the pair (of cells) the client owns, or NoPair
    pair2,            \* the pair a lens `set` returned, or NoPair
    touched,          \* the slots of `pair` the client has mutated since it was built
    last              \* the last library call: [op, args, out, ...]

vars == <<overflow_checks, heap, fun, given, held, pair, pair2, touched, last>>

(***************************************************************************)
(* Bounds.                                                                 *)
(***************************************************************************)
MaxVal    == 2   \* the client's inputs are 0..MaxVal
UsizeBits == 3   \* the width of usize in the model
MaxCells  == 4   \* the heap holds at most MaxCells live cells
MaxDepth  == 2   \* a callable is at most MaxDepth combinators around a plain function

Val     == 0..MaxVal
Modulus == 2^UsizeBits
Addr    == 1..MaxCells

(***************************************************************************)
(* Outcomes of a call: a value, or a panic.  Option: Some(reference)/None. *)
(***************************************************************************)
Ok(v)   == [tag |-> "ok", val |-> v]
Panic   == [tag |-> "panic"]
Some(r) == [tag |-> "some", ref |-> r]
None    == [tag |-> "none"]

(***************************************************************************)
(* The heap: owned values, Clone and drop.                                 *)
(***************************************************************************)
EmptyHeap == [x \in {} |-> 0]

FreeAddrs(h) == Addr \ DOMAIN h

Room(h, n) == Cardinality(FreeAddrs(h)) >= n

\* A new owned value with content v (the least free address).
alloc(h, v) ==
    LET r == CHOOSE x \in FreeAddrs(h) : \A y \in FreeAddrs(h) : x <= y
    IN  [heap |-> [x \in DOMAIN h \cup {r} |-> IF x = r THEN v ELSE h[x]],
         ref  |-> r]

\* Clone::clone(&r): an independent value equal to the one at r.
clone(h, r) == alloc(h, h[r])

\* The values at the cells S go out of scope.
drop(h, S) == [x \in DOMAIN h \ S |-> h[x]]

(***************************************************************************)
(* The plain functions of the library's examples.                          *)
(***************************************************************************)
\* An arithmetic result n that may lie outside usize.
usize_result(checks, n) ==
    IF n >= 0 /\ n < Modulus THEN Ok(n)
    ELSE IF checks THEN Panic
    ELSE Ok((n + Modulus) % Modulus)

usize_add(a, b) == usize_result(overflow_checks, a + b)

\* Faulty variant: the subtraction panics on overflow in every build.
usize_sub_checked(a, b) == usize_result(TRUE, a - b)

usize_sub(a, b) == usize_result(overflow_checks, a - b)

double(x) == usize_result(overflow_checks, x * 2)

fn_add    == [kind |-> "usize::add"]
fn_sub    == [kind |-> "usize::sub"]
fn_double == [kind |-> "double"]

(***************************************************************************)
(* The combinators: each returns a closure that owns what it captured.     *)
(***************************************************************************)
always(a)          == [kind |-> "always", a |-> a]
flip(f)            == [kind |-> "flip", f |-> f]
first_arg(f)       == [kind |-> "first_arg", f |-> f]
second_arg(f)      == [kind |-> "second_arg", f |-> f]
apply_first(a, f)  == [kind |-> "apply_first", a |-> a, f |-> f]
apply_second(b, f) == [kind |-> "apply_second", b |-> b, f |-> f]
spread(f)          == [kind |-> "spread", f |-> f]
map_first(f)       == [kind |-> "map_first", f |-> f]
map_second(f)      == [kind |-> "map_second", f |-> f]

NoFn == [kind |-> "nofn"]

Arity0(f)  == f.kind = "always"
Arity1(f)  == f.kind \in {"double", "apply_first", "apply_second"}
Arity2(f)  == f.kind \in {"usize::add", "usize::sub", "flip", "first_arg", "second_arg"}
OnPair(f)  == f.kind \in {"spread", "map_first", "map_second"}
Plain(f)   == f.kind \in {"usize::add", "usize::sub", "double"}

RECURSIVE Depth(_)
Depth(f) == IF Plain(f) \/ f = NoFn THEN 0
            ELSE IF Arity0(f) THEN 1
            ELSE 1 + Depth(f.f)

\* The cells a callable owns (its captured values).
RECURSIVE Captured(_)
Captured(f) ==
    IF Plain(f) \/ f = NoFn THEN {}
    ELSE IF f.kind = "always" THEN {f.a}
    ELSE IF f.kind = "apply_first" THEN {f.a} \cup Captured(f.f)
    ELSE IF f.kind = "apply_second" THEN {f.b} \cup Captured(f.f)
    ELSE Captured(f.f)

(***************************************************************************)
(* The bodies of the returned closures.  c is the closure, h the heap at   *)
(* the call; a temporary clone is consumed by the callee, so only          *)
(* always's closure leaves a new cell behind.                              *)
(***************************************************************************)
RECURSIVE Call1(_, _, _), Call2(_, _, _, _)

\* Faulty variant: the captured value itself is handed out, not a clone.
always_call_alias(h, c) == [heap |-> h, ref |-> c.a]

\* move || a.clone()
always_call(h, c) == clone(h, c.a)

\* Faulty variant: the arguments are passed on in the order received.
flip_call_unflipped(h, c, a, b) == Call2(h, c.f, a, b)

\* move |a, b| f(b, a)
flip_call(h, c, a, b) == Call2(h, c.f, b, a)

\* Faulty variant: f is applied to the second argument.
first_arg_call_other(h, c, a, b) == Call1(h, c.f, b)

\* move |a, _| f(a)
first_arg_call(h, c, a, b) == Call1(h, c.f, a)

\* move |_, b| f(b)
second_arg_call(h, c, a, b) == Call1(h, c.f, b)

\* Faulty variant: the bound value is passed as the second argument.
apply_first_call_swapped(h, c, b) ==
    LET cl == clone(h, c.a) IN Call2(cl.heap, c.f, b, cl.heap[cl.ref])

\* move |b| f(a.clone(), b)
apply_first_call(h, c, b) ==
    LET cl == clone(h, c.a) IN Call2(cl.heap, c.f, cl.heap[cl.ref], b)

\* move |a| f(a, b.clone())
apply_second_call(h, c, a) ==
    LET cl == clone(h, c.b) IN Call2(cl.heap, c.f, a, cl.heap[cl.ref])

\* Faulty variant: the slots are passed in reverse order.
spread_call_reordered(h, c, p) == Call2(h, c.f, p[2], p[1])

\* move |(a, b)| f(a, b)
spread_call(h, c, p) == Call2(h, c.f, p[1], p[2])

\* Faulty variant: f is applied to both slots.
map_first_call_both(h, c, p) ==
    LET r == Call1(h, c.f, p[1])
        s == Call1(h, c.f, p[2])
    IN  IF r.tag = "panic" \/ s.tag = "panic" THEN Panic ELSE Ok(<<r.val, s.val>>)

\* move |(a, b)| (f(a), b)
map_first_call(h, c, p) ==
    LET r == Call1(h, c.f, p[1])
    IN  IF r.tag = "panic" THEN Panic ELSE Ok(<<r.val, p[2]>>)

\* move |(a, b)| (a, f(b))
map_second_call(h, c, p) ==
    LET r == Call1(h, c.f, p[2])
    IN  IF r.tag = "panic" THEN Panic ELSE Ok(<<p[1], r.val>>)

\* Invoking a callable of one usize argument.
Call1(h, f, x) ==
    CASE f.kind = "double"       -> double(x)
      [] f.kind = "apply_first"  -> apply_first_call(h, f, x)
      [] f.kind = "apply_second" -> apply_second_call(h, f, x)

\* Invoking a callable of two usize arguments.
Call2(h, f, x, y) ==
    CASE f.kind = "usize::add"  -> usize_add(x, y)
      [] f.kind = "usize::sub"  -> usize_sub(x, y)
      [] f.kind = "flip"        -> flip_call(h, f, x, y)
      [] f.kind = "first_arg"   -> first_arg_call(h, f, x, y)
      [] f.kind = "second_arg"  -> second_arg_call(h, f, x, y)

\* Invoking a callable of one pair argument.
CallPair(h, f, p) ==
    CASE f.kind = "spread"     -> spread_call(h, f, p)
      [] f.kind = "map_first"  -> map_first_call(h, f, p)
      [] f.kind = "map_second" -> map_second_call(h, f, p)

(***************************************************************************)
(* The tuple combinators.  A pair is <<first, second>>; the generic        *)
(* operations work alike on pairs of numbers and on pairs of cells.        *)
(***************************************************************************)
NoPair == <<>>

\* The pair of cells p compared by value (PartialEq on its contents).
PairVal(h, p) == <<h[p[1]], h[p[2]]>>

\* Faulty variant: both slots are the same value, not a value and its clone.
duplicate_alias(h, a) == [heap |-> h, pair |-> <<a, a>>]

\* (a.clone(), a)
duplicate(h, a) ==
    LET cl == clone(h, a) IN [heap |-> cl.heap, pair |-> <<cl.ref, a>>]

\* (a, b)
cons(a, b) == <<a, b>>

\* (a, ..) -> a
first(p) == p[1]

\* (.., b) -> b
second(p) == p[2]

(***************************************************************************)
(* The tuple lenses.  get borrows: it returns a reference into the pair.   *)
(* set takes the new part by value and the pair by reference.              *)
(***************************************************************************)
\* Faulty variant: the reference is to the second slot.
LensFirst_get_other(p) == Some(p[2])

\* Some(a)
LensFirst_get(p) == Some(p[1])

\* Faulty variant: the second slot is replaced, the first one kept.
LensFirst_set_second(h, a, p) ==
    LET cl == clone(h, p[1]) IN [heap |-> cl.heap, pair |-> <<cl.ref, a>>]

\* (a, b.clone())
LensFirst_set(h, a, p) ==
    LET cl == clone(h, p[2]) IN [heap |-> cl.heap, pair |-> <<a, cl.ref>>]

\* Some(b)
LensSecond_get(p) == Some(p[2])

\* (a.clone(), b)
LensSecond_set(h, b, p) ==
    LET cl == clone(h, p[1]) IN [heap |-> cl.heap, pair |-> <<cl.ref, b>>]

(***************************************************************************)
(* The client.                                                             *)
(***************************************************************************)
NoCall == [op |-> "none"]

Idle == fun = NoFn /\ pair = NoPair /\ held = {}

Init ==
    /\ overflow_checks \in BOOLEAN
    /\ heap = EmptyHeap
    /\ fun = NoFn
    /\ given = 0
    /\ held = {}
    /\ pair = NoPair
    /\ pair2 = NoPair
    /\ touched = {}
    /\ last = NoCall

\* Everything the client owns goes out of scope.
Reset ==
    /\ ~Idle
    /\ heap' = EmptyHeap
    /\ fun' = NoFn
    /\ given' = 0
    /\ held' = {}
    /\ pair' = NoPair
    /\ pair2' = NoPair
    /\ touched' = {}
    /\ last' = NoCall
    /\ UNCHANGED overflow_checks

\* The pair side of the state, which the callables leave alone.
pairSide == <<pair, pair2, touched>>

\* The client names one of the plain functions: usize::add, usize::sub, double.
PickPlain ==
    /\ Idle
    /\ \E f \in {fn_add, fn_sub, fn_double} : fun' = f
    /\ UNCHANGED <<overflow_checks, heap, given, held, pairSide, last>>

\* let one = always(v);
Always ==
    /\ Idle
    /\ \E v \in Val :
         LET m == alloc(heap, v)
         IN  /\ heap' = m.heap
             /\ fun' = always(m.ref)
             /\ given' = v
    /\ UNCHANGED <<overflow_checks, held, pairSide, last>>

\* fun = flip(fun), first_arg(fun), ... : the callable is moved into the new one.
Wrap(ok, g) ==
    /\ ok
    /\ Depth(fun) < MaxDepth
    /\ fun' = g
    /\ UNCHANGED <<overflow_checks, heap, given, held, pairSide, last>>

Flip      == Wrap(Arity2(fun), flip(fun))
FirstArg  == Wrap(Arity1(fun), first_arg(fun))
SecondArg == Wrap(Arity1(fun), second_arg(fun))
Spread    == Wrap(Arity2(fun), spread(fun))
MapFirst  == Wrap(Arity1(fun), map_first(fun))
MapSecond == Wrap(Arity1(fun), map_second(fun))

\* let add1 = apply_first(v, fun);
ApplyFirst ==
    /\ Arity2(fun)
    /\ Depth(fun) < MaxDepth
    /\ Room(heap, 1)
    /\ \E v \in Val :
         LET m == alloc(heap, v)
         IN  /\ heap' = m.heap
             /\ fun' = apply_first(m.ref, fun)
             /\ given' = v
    /\ UNCHANGED <<overflow_checks, held, pairSide, last>>

\* let sub1 = apply_second(v, fun);
ApplySecond ==
    /\ Arity2(fun)
    /\ Depth(fun) < MaxDepth
    /\ Room(heap, 1)
    /\ \E v \in Val :
         LET m == alloc(heap, v)
         IN  /\ heap' = m.heap
             /\ fun' = apply_second(m.ref, fun)
             /\ given' = v
    /\ UNCHANGED <<overflow_checks, held, pairSide, last>>

\* fun(): the client keeps the value returned.
Invoke0 ==
    /\ Arity0(fun)
    /\ Room(heap, 1)
    /\ LET r == always_call(heap, fun)
       IN  /\ heap' = r.heap
           /\ held' = held \cup {r.ref}
           /\ last' = [op |-> "call0", f |-> fun, args |-> <<>>,
                       before |-> heap, out |-> Ok(r.heap[r.ref])]
    /\ UNCHANGED <<overflow_checks, fun, given, pairSide>>

\* fun(x), for a callable the library returned
Invoke1 ==
    /\ Arity1(fun)
    /\ ~Plain(fun)
    /\ Room(heap, Cardinality(Captured(fun)))
    /\ \E x \in Val :
         last' = [op |-> "call1", f |-> fun, args |-> <<x>>,
                  out |-> Call1(heap, fun, x)]
    /\ UNCHANGED <<overflow_checks, heap, fun, given, held, pairSide>>

\* fun(x, y), for a callable the library returned
Invoke2 ==
    /\ Arity2(fun)
    /\ ~Plain(fun)
    /\ Room(heap, Cardinality(Captured(fun)))
    /\ \E x, y \in Val :
         last' = [op |-> "call2", f |-> fun, args |-> <<x, y>>,
                  out |-> Call2(heap, fun, x, y)]
    /\ UNCHANGED <<overflow_checks, heap, fun, given, held, pairSide>>

\* fun((x, y))
InvokePair ==
    /\ OnPair(fun)
    /\ Room(heap, Cardinality(Captured(fun)))
    /\ \E x, y \in Val :
         last' = [op |-> "callp", f |-> fun, args |-> <<x, y>>,
                  out |-> CallPair(heap, fun, cons(x, y))]
    /\ UNCHANGED <<overflow_checks, heap, fun, given, held, pairSide>>

\* The client writes to a value it owns singly.
MutateHeld ==
    /\ \E r \in held, v \in Val :
         /\ heap[r] # v
         /\ heap' = [heap EXCEPT ![r] = v]
    /\ UNCHANGED <<overflow_checks, fun, given, held, pairSide, last>>

\* The cells of a pair of cells.
CellsOf(p) == IF p = NoPair THEN {} ELSE {p[1], p[2]}

\* assert_eq!(duplicate(v), (v, v));
Duplicate ==
    /\ Idle
    /\ \E v \in Val :
         LET m == alloc(heap, v)
             r == duplicate(m.heap, m.ref)
         IN  /\ heap' = r.heap
             /\ pair' = r.pair
             /\ given' = v
             /\ last' = [op |-> "duplicate", args |-> <<v>>,
                         out |-> Ok(PairVal(r.heap, r.pair))]
    /\ touched' = {}
    /\ UNCHANGED <<overflow_checks, fun, held, pair2>>

\* let p = cons(a, b);
Cons ==
    /\ Idle
    /\ \E a, b \in Val :
         LET m == alloc(heap, a)
             n == alloc(m.heap, b)
         IN  /\ heap' = n.heap
             /\ pair' = cons(m.ref, n.ref)
             /\ last' = [op |-> "cons", args |-> <<a, b>>,
                         out |-> Ok(PairVal(n.heap, cons(m.ref, n.ref)))]
    /\ touched' = {}
    /\ UNCHANGED <<overflow_checks, fun, given, held, pair2>>

\* let a = first(p);  the pair is consumed, its other slot dropped.
First ==
    /\ pair # NoPair
    /\ LET r == first(pair)
       IN  /\ heap' = drop(heap, CellsOf(pair) \ {r})
           /\ held' = held \cup {r}
           /\ last' = [op |-> "first", args |-> PairVal(heap, pair),
                       out |-> Ok(heap[r])]
    /\ pair' = NoPair
    /\ touched' = {}
    /\ UNCHANGED <<overflow_checks, fun, given, pair2>>

\* let b = second(p);
Second ==
    /\ pair # NoPair
    /\ LET r == second(pair)
       IN  /\ heap' = drop(heap, CellsOf(pair) \ {r})
           /\ held' = held \cup {r}
           /\ last' = [op |-> "second", args |-> PairVal(heap, pair),
                       out |-> Ok(heap[r])]
    /\ pair' = NoPair
    /\ touched' = {}
    /\ UNCHANGED <<overflow_checks, fun, given, pair2>>

\* p.0 = v;  or  p.1 = v;
MutateSlot ==
    /\ pair # NoPair
    /\ \E i \in {1, 2}, v \in Val :
         /\ heap[pair[i]] # v
         /\ heap' = [heap EXCEPT ![pair[i]] = v]
         /\ touched' = touched \cup {i}
    /\ UNCHANGED <<overflow_checks, fun, given, held, pair, pair2, last>>

\* LensFirst::get(&p)
LensFirstGet ==
    /\ pair # NoPair
    /\ last' = [op |-> "LensFirst::get", whole |-> pair,
                out |-> LensFirst_get(pair)]
    /\ UNCHANGED <<overflow_checks, heap, fun, given, held, pairSide>>

\* LensSecond::get(&p)
LensSecondGet ==
    /\ pair # NoPair
    /\ last' = [op |-> "LensSecond::get", whole |-> pair,
                out |-> LensSecond_get(pair)]
    /\ UNCHANGED <<overflow_checks, heap, fun, given, held, pairSide>>

\* let q = LensFirst::set(c, &p);  the q of an earlier set goes out of scope.
LensFirstSet ==
    /\ pair # NoPair
    /\ Room(drop(heap, CellsOf(pair2)), 2)
    /\ \E c \in Val :
         LET m == alloc(drop(heap, CellsOf(pair2)), c)
             r == LensFirst_set(m.heap, m.ref, pair)
         IN  /\ heap' = r.heap
             /\ pair2' = r.pair
             /\ last' = [op |-> "LensFirst::set", part |-> c,
                         whole |-> PairVal(heap, pair),
                         out   |-> Ok(PairVal(r.heap, r.pair)),
                         after |-> PairVal(r.heap, pair)]
    /\ UNCHANGED <<overflow_checks, fun, given, held, pair, touched>>

\* let q = LensSecond::set(c, &p);
LensSecondSet ==
    /\ pair # NoPair
    /\ Room(drop(heap, CellsOf(pair2)), 2)
    /\ \E c \in Val :
         LET m == alloc(drop(heap, CellsOf(pair2)), c)
             r == LensSecond_set(m.heap, m.ref, pair)
         IN  /\ heap' = r.heap
             /\ pair2' = r.pair
             /\ last' = [op |-> "LensSecond::set", part |-> c,
                         whole |-> PairVal(heap, pair),
                         out   |-> Ok(PairVal(r.heap, r.pair)),
                         after |-> PairVal(r.heap, pair)]
    /\ UNCHANGED <<overflow_checks, fun, given, held, pair, touched>>

\* let q = LensFirst::set(LensFirst::get(&p).unwrap().clone(), &p);
LensFirstSetGet ==
    /\ pair # NoPair
    /\ Room(drop(heap, CellsOf(pair2)), 2)
    /\ LET g == LensFirst_get(pair)
       IN  IF g.tag = "none"
           THEN /\ last' = [op |-> "LensFirst::set_get",
                            whole |-> PairVal(heap, pair), out |-> Panic]
                /\ UNCHANGED <<heap, pair2>>
           ELSE LET cl == clone(drop(heap, CellsOf(pair2)), g.ref)
                    r  == LensFirst_set(cl.heap, cl.ref, pair)
                IN  /\ heap' = r.heap
                    /\ pair2' = r.pair
                    /\ last' = [op |-> "LensFirst::set_get",
                                whole |-> PairVal(heap, pair),
                                out   |-> Ok(PairVal(r.heap, r.pair)),
                                after |-> PairVal(r.heap, pair)]
    /\ UNCHANGED <<overflow_checks, fun, given, held, pair, touched>>

\* let q = LensSecond::set(LensSecond::get(&p).unwrap().clone(), &p);
LensSecondSetGet ==
    /\ pair # NoPair
    /\ Room(drop(heap, CellsOf(pair2)), 2)
    /\ LET g == LensSecond_get(pair)
       IN  IF g.tag = "none"
           THEN /\ last' = [op |-> "LensSecond::set_get",
                            whole |-> PairVal(heap, pair), out |-> Panic]
                /\ UNCHANGED <<heap, pair2>>
           ELSE LET cl == clone(drop(heap, CellsOf(pair2)), g.ref)
                    r  == LensSecond_set(cl.heap, cl.ref, pair)
                IN  /\ heap' = r.heap
                    /\ pair2' = r.pair
                    /\ last' = [op |-> "LensSecond::set_get",
                                whole |-> PairVal(heap, pair),
                                out   |-> Ok(PairVal(r.heap, r.pair)),
                                after |-> PairVal(r.heap, pair)]
    /\ UNCHANGED <<overflow_checks, fun, given, held, pair, touched>>

Next ==
    \/ Reset
    \/ PickPlain
    \/ Always
    \/ Flip
    \/ FirstArg
    \/ SecondArg
    \/ ApplyFirst
    \/ ApplySecond
    \/ Spread
    \/ MapFirst
    \/ MapSecond
    \/ Invoke0
    \/ Invoke1
    \/ Invoke2
    \/ InvokePair
    \/ MutateHeld
    \/ Duplicate
    \/ Cons
    \/ First
    \/ Second
    \/ MutateSlot
    \/ LensFirstGet
    \/ LensSecondGet
    \/ LensFirstSet
    \/ LensSecondSet
    \/ LensFirstSetGet
    \/ LensSecondSetGet

Spec == Init /\ [][Next]_vars

(***************************************************************************)
(* Properties.                                                             *)
(***************************************************************************)
\* The last library call was an invocation `op` of the callable the client holds.
Called(op) == last.op = op /\ last.f = fun

(* C1: partial application keeps argument positions and the bound value:   *)
(* every invocation apply_first(a, f)(b) returns f(a, b) and every         *)
(* invocation apply_second(b, f)(a) returns f(a, b), with the value given  *)
(* at creation, which the closure still holds unchanged.                   *)
C1_PartialApplication ==
    Called("call1") =>
        /\ fun.kind = "apply_first" =>
              /\ heap[fun.a] = given
              /\ last.out = Call2(heap, fun.f, given, last.args[1])
        /\ fun.kind = "apply_second" =>
              /\ heap[fun.b] = given
              /\ last.out = Call2(heap, fun.f, last.args[1], given)

\* apply_first(1, usize::sub)(2): the scenario of the specification.
C1_Witness ==
    /\ Called("call1")
    /\ fun.kind = "apply_first"
    /\ fun.f = fn_sub
    /\ given = 1
    /\ last.args = <<2>>

(* C2: the callable returned by always(a) returns a value equal to a on    *)
(* every invocation, whatever the client did with the values returned      *)
(* earlier: the captured value never changes and is never handed out.      *)
C2_AlwaysReturnsGiven ==
    fun.kind = "always" =>
        /\ heap[fun.a] = given
        /\ fun.a \notin held
        /\ Called("call0") => last.out = Ok(given)

\* An invocation made after the client changed a value returned earlier.
C2_Witness ==
    /\ Called("call0")
    /\ \E r \in held : r \in DOMAIN last.before /\ last.before[r] # given

(* C3: duplicate(a) == (a, a), and the two slots are independent copies:   *)
(* a slot the client has not written still holds a, whatever was written   *)
(* to the other slot.                                                      *)
C3_DuplicateIndependent ==
    last.op = "duplicate" =>
        /\ last.out = Ok(<<last.args[1], last.args[1]>>)
        /\ given = last.args[1]
        /\ pair # NoPair =>
              /\ pair[1] # pair[2]
              /\ \A i \in {1, 2} : i \notin touched => heap[pair[i]] = given

\* The first slot of a duplicate was written, the second was not.
C3_Witness ==
    /\ last.op = "duplicate"
    /\ pair # NoPair
    /\ touched = {1}
    /\ heap[pair[1]] # given

(* C4: set-after-get is the identity, for both lenses: setting a pair's    *)
(* slot to a copy of what get returns for it yields a pair equal to it.    *)
C4_SetAfterGet ==
    last.op \in {"LensFirst::set_get", "LensSecond::set_get"} =>
        last.out = Ok(last.whole)

\* LensFirst's set-after-get on a pair whose slots differ.
C4_Witness ==
    /\ last.op = "LensFirst::set_get"
    /\ last.whole[1] # last.whole[2]
    /\ last.out.tag = "ok"

(* C5: get is always present and refers to the focused slot; set returns   *)
(* a new pair with only the focused slot replaced, and leaves the input    *)
(* pair as it was.                                                         *)
C5_LensGetSet ==
    /\ last.op = "LensFirst::get" => last.out = Some(last.whole[1])
    /\ last.op = "LensSecond::get" => last.out = Some(last.whole[2])
    /\ last.op = "LensFirst::set" =>
          /\ last.out = Ok(<<last.part, last.whole[2]>>)
          /\ last.after = last.whole
    /\ last.op = "LensSecond::set" =>
          /\ last.out = Ok(<<last.whole[1], last.part>>)
          /\ last.after = last.whole
    /\ CellsOf(pair) \cap CellsOf(pair2) = {}

\* LensFirst::set(c, &(a, b)) with a, b, c all different.
C5_Witness ==
    /\ last.op = "LensFirst::set"
    /\ last.part \notin {last.whole[1], last.whole[2]}
    /\ last.whole[1] # last.whole[2]

(* C6: flip reverses the argument order and is an involution:              *)
(* flip(f)(b, a) == f(a, b) and flip(flip(f))(a, b) == f(a, b).            *)
C6_FlipInvolution ==
    (Called("call2") /\ fun.kind = "flip") =>
        /\ last.out = Call2(heap, fun.f, last.args[2], last.args[1])
        /\ fun.f.kind = "flip" =>
              last.out = Call2(heap, fun.f.f, last.args[1], last.args[2])
        /\ fun.f = fn_sub => last.out = usize_sub(last.args[2], last.args[1])

\* flip(flip(usize::sub)) called with two different arguments.
C6_Witness ==
    /\ Called("call2")
    /\ fun = flip(flip(fn_sub))
    /\ last.args[1] # last.args[2]

C9_Spread ==
    (Called("callp") /\ fun.kind = "spread") =>
        /\ last.out = Call2(heap, fun.f, last.args[1], last.args[2])
        /\ fun.f = fn_sub => last.out = usize_sub(last.args[1], last.args[2])

\* spread(usize::sub)((2, 1)) == 1.
C9_Witness ==
    /\ Called("callp")
    /\ fun = spread(fn_sub)
    /\ last.args = <<2, 1>>
    /\ last.out = Ok(1)

(* C10, as stated: no library operation and no invocation of a returned    *)
(* callable ends in a panic.                                               *)
C10_NeverPanics ==
    last.op # "none" => last.out.tag # "panic"

(* C10, amended: the operations of the library add no failure of their     *)
(* own.  Only an invocation of a returned callable can panic, and only by  *)
(* the function it wraps: an arithmetic overflow in a build with overflow  *)
(* checks.  flip(usize::sub)(b, a) panics exactly when a < b there.        *)
C10_PanicOnlyFromWrapped ==
    /\ (last.op # "none" /\ last.out.tag = "panic") =>
          /\ last.op \in {"call1", "call2", "callp"}
          /\ overflow_checks
    /\ (Called("call2") /\ fun = flip(fn_sub)) =>
          (last.out = Panic <=> (overflow_checks /\ last.args[2] < last.args[1]))

\* flip(usize::sub)(2, 1) panics: 1 - 2 overflows.
C10_Witness ==
    /\ Called("call2")
    /\ fun = flip(fn_sub)
    /\ last.args = <<2, 1>>
    /\ last.out = Panic

=============================================================================
